---- MODULE Spec2Model ----
(***************************************************************************)
(* Subscription lifecycle engine of Vetalyze (accounts app).               *)
(*                                                                         *)
(* The store is the SubscriptionHistory table: a sequence of rows whose    *)
(* index is the primary key.  Dates are whole days counted from day 0,     *)
(* `today` is date.today().  Each action is one request handler, admin     *)
(* action or management command, translated from its code.  `inflight`     *)
(* holds the requests and command runs that have read the table and have   *)
(* not committed yet; it stays idle where requests run one after another.  *)
(***************************************************************************)
EXTENDS Integers, Sequences, FiniteSets, TLC

VARIABLES records, today, last, inflight

vars == <<records, today, last, inflight>>

(***************************************************************************)
(* Bounds of the model.                                                    *)
(***************************************************************************)
MaxRecords == 3
MaxLongRecords == 5
MaxDay == 2

\* the clinics, the duration_days of the plans and the amounts of the requests
Clinics == {1}
DurationDays == {1, 2}
Amounts == {-1, 1}

(***************************************************************************)
(* Lines of the free-text comments field.  A line is plain text, or a line *)
(* that starts with '[Days Remaining:' followed by an integer and ']', or  *)
(* a line that starts with '[Days Remaining:' followed by something int()  *)
(* rejects.                                                                *)
(***************************************************************************)
TextLine == [k |-> "text", v |-> 0]
DaysLine(n) == [k |-> "days", v |-> n]
BadDaysLine == [k |-> "baddays", v |-> 0]

\* request.data.get('comment', '').strip(): empty, one line, or several lines
OperatorComments ==
    { <<>>, <<TextLine>>, <<TextLine, DaysLine(2)>>, <<TextLine, BadDaysLine>> }

\* the comments of requests that only test the comment for emptiness
ShortComments == { <<>>, <<TextLine>> }

Max(a, b) == IF a >= b THEN a ELSE b

Ids(recs) == 1..Len(recs)

ClinicIds(recs, c) == {i \in Ids(recs) : recs[i].clinic = c}

\* uuid.uuid4 default of subscription_group: a value no stored row carries
NewGroup(recs) ==
    IF recs = <<>> THEN 1
    ELSE 1 + (CHOOSE g \in {recs[i].group : i \in Ids(recs)} :
                 \A i \in Ids(recs) : recs[i].group <= g)

\* mutant: a row that starts today is left UPCOMING
save_today_upcoming(clinic, group, startDate, endDate, st, duration, amount, comments, day) ==
    [clinic |-> clinic,
     group |-> group,
     start |-> startDate,
     end |-> IF endDate = <<>> THEN startDate + duration ELSE endDate[1],
     status |-> IF st = "UPCOMING"
                THEN (IF startDate >= day THEN "UPCOMING" ELSE "ACTIVE")
                ELSE st,
     adate |-> day,
     amount |-> amount,
     comments |-> comments]

\* SubscriptionHistory.save on creation: end_date and status defaults
\* (endDate is <<>> when the caller passes no end_date, <<d>> otherwise)
save(clinic, group, startDate, endDate, st, duration, amount, comments, day) ==
    [clinic |-> clinic,
     group |-> group,
     start |-> startDate,
     end |-> IF endDate = <<>> THEN startDate + duration ELSE endDate[1],
     status |-> IF st = "UPCOMING"
                THEN (IF startDate > day THEN "UPCOMING" ELSE "ACTIVE")
                ELSE st,
     adate |-> day,
     amount |-> amount,
     comments |-> comments]

\* mutant: the difference of the dates without the max(0, ...)
days_left_signed(r, day) ==
    IF r.status = "ACTIVE" THEN r.end - day ELSE 0

\* SubscriptionHistory.days_left
days_left(r, day) ==
    IF r.status = "ACTIVE" THEN Max(0, r.end - day) ELSE 0

\* order_by('-activation_date', '-pk').first()
Later(recs, i, j) ==
    \/ recs[i].adate > recs[j].adate
    \/ recs[i].adate = recs[j].adate /\ i > j

\* mutant: the rows ordered the other way round, the oldest row first
oldest_subscription(recs, c) ==
    CHOOSE i \in ClinicIds(recs, c) : \A j \in ClinicIds(recs, c) \ {i} : Later(recs, j, i)

latest_subscription(recs, c) ==
    CHOOSE i \in ClinicIds(recs, c) : \A j \in ClinicIds(recs, c) \ {i} : Later(recs, i, j)

\* ClinicOwnerProfile.status
clinic_status(recs, c) ==
    IF ClinicIds(recs, c) = {} THEN "INACTIVE"
    ELSE LET s == recs[latest_subscription(recs, c)].status
         IN  IF s = "ACTIVE" THEN "ACTIVE"
             ELSE IF s = "SUSPENDED" THEN "SUSPENDED"
             ELSE "ENDED"

HasStatus(recs, c, st) == \E i \in ClinicIds(recs, c) : recs[i].status = st

GroupHasStatus(recs, g, st) == \E i \in Ids(recs) : recs[i].group = g /\ recs[i].status = st

Outcome(recs, res) == [recs |-> recs, res |-> res]

\* the database connections that may hold an open transaction, and a
\* connection without one
Slots == {1, 2}

Idle ==
    [op |-> "idle", day |-> 0, sub |-> 0, seen |-> 0, rows |-> <<>>, flips |-> {},
     locks |-> {}, start |-> 0, duration |-> 0, count |-> 0]

TypeOK ==
    /\ today \in 0..MaxDay
    /\ Len(records) <= Max(MaxRecords, MaxLongRecords)
    /\ \A i \in Ids(records) :
          /\ records[i].clinic \in Clinics
          /\ records[i].status \in {"UPCOMING", "ACTIVE", "ENDED", "SUSPENDED", "REFUNDED"}

Init ==
    /\ records = <<>>
    /\ today = 0
    /\ last = [op |-> "init", res |-> "ok", rid |-> 0,
               activated |-> 0, expired |-> 0, again |-> FALSE]
    /\ inflight = [s \in Slots |-> Idle]

\* what the last request or command run was and what it answered: op and
\* res, the row it worked on (rid, 0 when the request was answered before a
\* row was looked at or created), the counts a reconciliation run reported,
\* and whether that run directly followed another reconciliation run
Record(op, res, rid, na, ne) ==
    last' = [op |-> op, res |-> res, rid |-> rid,
             activated |-> na, expired |-> ne,
             again |-> (op = "reconcile" /\ last.op = "reconcile")]

\* a request or run that reads, writes and commits with nothing in between
Done(op, res, rid, na, ne) ==
    /\ Record(op, res, rid, na, ne)
    /\ UNCHANGED inflight

(***************************************************************************)
(* create_subscription: CreateSubscriptionHistorySerializer                *)
(***************************************************************************)
\* mutant: the overlap query with strict comparisons, so that windows
\* sharing only a boundary day pass
overlapping_strict(recs, c, startDate, endDate) ==
    {i \in ClinicIds(recs, c) :
        /\ recs[i].end > startDate
        /\ recs[i].start < endDate
        /\ recs[i].status \notin {"ENDED", "REFUNDED"}}

\* the overlap query of validate: rows of the clinic that are neither ENDED
\* nor REFUNDED with end_date >= start_date and start_date <= end_date
overlapping_subscriptions(recs, c, startDate, endDate) ==
    {i \in ClinicIds(recs, c) :
        /\ recs[i].end >= startDate
        /\ recs[i].start <= endDate
        /\ recs[i].status \notin {"ENDED", "REFUNDED"}}

\* mutant: the start_date check placed before the suspended-clinic check
validate_date_first(recs, day, c, startDate, duration, amount) ==
    IF startDate < day THEN "ValidationError"
    ELSE IF clinic_status(recs, c) = "SUSPENDED" THEN "SuspendedClinicError"
    ELSE IF overlapping_subscriptions(recs, c, startDate, startDate + duration) # {}
         THEN "OverlappingSubscriptionError"
    ELSE IF amount < 0 THEN "ValidationError"
    ELSE "ok"

\* CreateSubscriptionHistorySerializer.validate: the error raised, or "ok"
validate(recs, day, c, startDate, duration, amount) ==
    IF clinic_status(recs, c) = "SUSPENDED" THEN "SuspendedClinicError"
    ELSE IF startDate < day THEN "ValidationError"
    ELSE IF overlapping_subscriptions(recs, c, startDate, startDate + duration) # {}
         THEN "OverlappingSubscriptionError"
    ELSE IF amount < 0 THEN "ValidationError"
    ELSE "ok"

\* mutant: the new row inserted without ending the ACTIVE rows
create_keep_active(recs, day, c, startDate, duration, amount) ==
    Append(recs, save(c, NewGroup(recs), startDate, <<>>, "UPCOMING",
                      duration, amount, <<TextLine>>, day))

\* CreateSubscriptionHistorySerializer.create
create(recs, day, c, startDate, duration, amount) ==
    LET ended == IF startDate <= day
                 THEN [i \in Ids(recs) |->
                          IF recs[i].clinic = c /\ recs[i].status = "ACTIVE"
                          THEN [recs[i] EXCEPT !.status = "ENDED"]
                          ELSE recs[i]]
                 ELSE recs
    IN  Append(ended, save(c, NewGroup(recs), startDate, <<>>, "UPCOMING",
                           duration, amount, <<TextLine>>, day))

\* POST to SubscriptionHistoryListCreateView: is_valid, then serializer.save
create_subscription(recs, day, c, startDate, duration, amount) ==
    LET v == validate(recs, day, c, startDate, duration, amount)
    IN  IF v # "ok" THEN Outcome(recs, v)
        ELSE Outcome(create(recs, day, c, startDate, duration, amount), "ok")

(***************************************************************************)
(* suspend / reactivate: ManageSubscriptionStatusView                      *)
(***************************************************************************)
\* f"Suspended: {comment}\n[Days Remaining: {days_remaining}]": the first
\* line of the operator's comment is prefixed, its other lines are kept
SuspendComments(comment, n) ==
    <<TextLine>> \o Tail(comment) \o <<DaysLine(n)>>

\* mutant: suspension without the check that the row is ACTIVE
handle_suspend_unchecked(recs, day, sub, comment) ==
    LET r == recs[sub]
    IN  IF HasStatus(recs, r.clinic, "UPCOMING") THEN [recs |-> recs, res |-> "BadRequest400"]
        ELSE [recs |-> Append(recs, [r EXCEPT !.start = day, !.status = "SUSPENDED",
                                               !.adate = day,
                                               !.comments = <<TextLine, DaysLine(0)>>]),
              res |-> "ok"]

\* mutant: the SUSPENDED row keeps the start_date of the ACTIVE row
handle_suspend_keep_start(recs, day, sub, comment) ==
    LET r == recs[sub]
    IN  IF r.status # "ACTIVE" THEN Outcome(recs, "InvalidSubscriptionStatusError")
        ELSE IF HasStatus(recs, r.clinic, "UPCOMING") THEN Outcome(recs, "BadRequest400")
        ELSE Outcome(Append(recs, save(r.clinic, r.group, r.start, <<r.end>>, "SUSPENDED", 0,
                                       r.amount, SuspendComments(comment, days_left(r, day)), day)),
                     "ok")

\* mutant: suspension without the check for an UPCOMING row
handle_suspend_ignore_upcoming(recs, day, sub, comment) ==
    LET r == recs[sub]
    IN  IF r.status # "ACTIVE" THEN Outcome(recs, "InvalidSubscriptionStatusError")
        ELSE Outcome(Append(recs, save(r.clinic, r.group, day, <<r.end>>, "SUSPENDED", 0,
                                       r.amount, SuspendComments(comment, days_left(r, day)), day)),
                     "ok")

\* ManageSubscriptionStatusView._handle_suspend
handle_suspend(recs, day, sub, comment) ==
    LET r == recs[sub]
        days_remaining == days_left(r, day)
    IN  IF r.status # "ACTIVE" THEN Outcome(recs, "InvalidSubscriptionStatusError")
        ELSE IF HasStatus(recs, r.clinic, "UPCOMING") THEN Outcome(recs, "BadRequest400")
        ELSE Outcome(Append(recs, save(r.clinic, r.group, day, <<r.end>>, "SUSPENDED", 0,
                                       r.amount, SuspendComments(comment, days_remaining), day)),
                     "ok")

\* the loop over comment_lines: the first line that starts with
\* '[Days Remaining:' decides; int() of its payload may raise ValueError
RECURSIVE ParseDaysRemaining(_)
ParseDaysRemaining(lines) ==
    IF lines = <<>> THEN [raised |-> FALSE, days |-> 0]
    ELSE IF Head(lines).k = "days" THEN [raised |-> FALSE, days |-> Head(lines).v]
    ELSE IF Head(lines).k = "baddays" THEN [raised |-> TRUE, days |-> 0]
    ELSE ParseDaysRemaining(Tail(lines))

\* try / except (ValueError, IndexError) / else of the reactivation code
new_end_date(r, day) ==
    LET p == ParseDaysRemaining(r.comments)
    IN  IF p.raised THEN r.end ELSE day + p.days

\* mutant: the ACTIVE row opens a group of its own
handle_reactivate_new_group(recs, day, sub) ==
    LET r == recs[sub]
    IN  IF r.status # "SUSPENDED" THEN Outcome(recs, "InvalidSubscriptionStatusError")
        ELSE Outcome(Append(recs, save(r.clinic, NewGroup(recs), day, <<new_end_date(r, day)>>,
                                       "ACTIVE", 0, r.amount, <<TextLine>>, day)),
                     "ok")

\* mutant: reactivation without the check that the row is SUSPENDED
handle_reactivate_unchecked(recs, day, sub) ==
    LET r == recs[sub]
    IN  Outcome(Append(recs, save(r.clinic, r.group, day, <<new_end_date(r, day)>>,
                                  "ACTIVE", 0, r.amount, <<TextLine>>, day)),
                "ok")

\* ManageSubscriptionStatusView._handle_reactivate
handle_reactivate(recs, day, sub) ==
    LET r == recs[sub]
    IN  IF r.status # "SUSPENDED" THEN Outcome(recs, "InvalidSubscriptionStatusError")
        ELSE Outcome(Append(recs, save(r.clinic, r.group, day, <<new_end_date(r, day)>>,
                                       "ACTIVE", 0, r.amount, <<TextLine>>, day)),
                     "ok")

\* the checks of the two views' post before a row's status is looked at
Early(recs, sub, clinic_pk, action, comment) ==
    IF sub \notin Ids(recs) \/ recs[sub].clinic # clinic_pk THEN "NotFound404"
    ELSE IF action = "" THEN "BadRequest400"
    ELSE IF comment = <<>> THEN "BadRequest400"
    ELSE "ok"

\* ManageSubscriptionStatusView.post
manage_post(recs, day, sub, clinic_pk, action, comment) ==
    IF Early(recs, sub, clinic_pk, action, comment) # "ok"
    THEN Outcome(recs, Early(recs, sub, clinic_pk, action, comment))
    ELSE IF action = "suspend" THEN handle_suspend(recs, day, sub, comment)
    ELSE IF action = "reactivate" THEN handle_reactivate(recs, day, sub)
    ELSE Outcome(recs, "BadRequest400")

(***************************************************************************)
(* refund: RefundSubscriptionView                                          *)
(***************************************************************************)
\* RefundSubscriptionView.post.  After the REFUNDED row is created the
\* handler evaluates Q(...), a name views.py never imports: the NameError
\* is caught by the handler's own except clause, which answers 500; the
\* exception does not leave the atomic block, so the row is committed.
refund_post(recs, day, sub, clinic_pk, comment) ==
    IF Early(recs, sub, clinic_pk, "refund", comment) # "ok"
    THEN Outcome(recs, Early(recs, sub, clinic_pk, "refund", comment))
    ELSE IF recs[sub].status \notin {"ACTIVE", "SUSPENDED", "UPCOMING"}
         THEN Outcome(recs, "BadRequest400")
    ELSE LET r == recs[sub]
         IN  Outcome(Append(recs, save(r.clinic, r.group, r.start, <<r.end>>, "REFUNDED", 0,
                                       r.amount, <<TextLine>>, day)),
                     "Error500")

(***************************************************************************)
(* admin actions on a selected row                                         *)
(***************************************************************************)
\* admin.suspend_subscriptions
suspend_subscriptions(recs, day, sub) ==
    LET r == recs[sub]
    IN  IF r.status # "ACTIVE" THEN recs
        ELSE IF HasStatus(recs, r.clinic, "UPCOMING") THEN recs
        ELSE Append(recs, save(r.clinic, r.group, day, <<r.end>>, "SUSPENDED", 0, r.amount,
                               <<TextLine, DaysLine(days_left(r, day))>>, day))

\* admin.reactivate_subscriptions
reactivate_subscriptions(recs, day, sub) ==
    LET r == recs[sub]
    IN  IF r.status # "SUSPENDED" THEN recs
        ELSE Append(recs, save(r.clinic, r.group, day, <<new_end_date(r, day)>>, "ACTIVE", 0,
                               r.amount, <<TextLine>>, day))

\* admin.refund_subscriptions: the row itself is rewritten
refund_subscriptions(recs, day, sub) ==
    IF recs[sub].status \notin {"ACTIVE", "SUSPENDED", "UPCOMING"} THEN recs
    ELSE [recs EXCEPT ![sub].status = "REFUNDED", ![sub].comments = <<TextLine>>]

(***************************************************************************)
(* update_subscription_statuses: the daily reconciliation command          *)
(***************************************************************************)
\* the sequences that list every element of S once: the orders in which a
\* queryset without order_by may yield its rows
Orders(S) ==
    {f \in [1..Cardinality(S) -> S] : \A a, b \in 1..Cardinality(S) : f[a] = f[b] => a = b}

\* the inner loop of _activate_upcoming_subscriptions over the clinic's
\* ACTIVE rows (rows 1..n of the table as it was when the loop started)
RECURSIVE end_active_subs(_, _, _, _, _)
end_active_subs(recs, day, c, i, n) ==
    IF i > n THEN recs
    ELSE IF recs[i].clinic = c /\ recs[i].status = "ACTIVE"
            /\ ~GroupHasStatus(recs, recs[i].group, "ENDED")
         THEN end_active_subs(
                  Append(recs, save(c, recs[i].group, recs[i].start, <<recs[i].end>>, "ENDED",
                                    0, recs[i].amount, <<TextLine>>, day)),
                  day, c, i + 1, n)
         ELSE end_active_subs(recs, day, c, i + 1, n)

\* Command._activate_upcoming_subscriptions, rows taken in the given order
RECURSIVE activate_upcoming_subscriptions(_, _, _, _)
activate_upcoming_subscriptions(recs, day, order, count) ==
    IF order = <<>> THEN [recs |-> recs, count |-> count]
    ELSE LET sub == Head(order)
             ended == end_active_subs(recs, day, recs[sub].clinic, 1, Len(recs))
         IN  activate_upcoming_subscriptions(
                 [ended EXCEPT ![sub].status = "ACTIVE"], day, Tail(order), count + 1)

\* mutant: the queryset with start_date__lt, so that a row that starts
\* today is not yet due
upcoming_subs_strict(recs, day) ==
    {i \in Ids(recs) : recs[i].status = "UPCOMING" /\ recs[i].start < day}

\* the queryset upcoming_subs
upcoming_subs(recs, day) ==
    {i \in Ids(recs) : recs[i].status = "UPCOMING" /\ recs[i].start <= day}

\* mutant: expiry without the check for an ENDED row of the group
RECURSIVE expire_unguarded(_, _, _, _)
expire_unguarded(recs, day, order, count) ==
    IF order = <<>> THEN [recs |-> recs, count |-> count]
    ELSE expire_unguarded(
             Append(recs, [recs[Head(order)] EXCEPT !.status = "ENDED", !.adate = day,
                                                    !.comments = <<TextLine>>]),
             day, Tail(order), count + 1)

\* Command._expire_active_subscriptions, rows taken in the given order
RECURSIVE expire_active_subscriptions(_, _, _, _)
expire_active_subscriptions(recs, day, order, count) ==
    IF order = <<>> THEN [recs |-> recs, count |-> count]
    ELSE LET sub == recs[Head(order)]
         IN  IF GroupHasStatus(recs, sub.group, "ENDED")
             THEN expire_active_subscriptions(recs, day, Tail(order), count)
             ELSE expire_active_subscriptions(
                      Append(recs, save(sub.clinic, sub.group, sub.start, <<sub.end>>, "ENDED",
                                        0, sub.amount, <<TextLine>>, day)),
                      day, Tail(order), count + 1)

\* the queryset expired_subs
expired_subs(recs, day) ==
    {i \in Ids(recs) : recs[i].status = "ACTIVE" /\ recs[i].end < day}

(***************************************************************************)
(* Actions.  cap bounds the number of rows a step may leave in the table;  *)
(* with every = FALSE only the requests that change the table are taken.   *)
(***************************************************************************)
CreateSubscription(cap, every) ==
    \E c \in Clinics, startDate \in (today - 1)..(today + 1),
       duration \in DurationDays, amount \in Amounts :
        LET o == create_subscription(records, today, c, startDate, duration, amount)
        IN  /\ every \/ o.recs # records
            /\ Len(o.recs) <= cap
            /\ records' = o.recs
            /\ Done("create", o.res, IF o.res = "ok" THEN Len(o.recs) ELSE 0, 0, 0)
            /\ UNCHANGED today

Suspend(cap, every) ==
    \E sub \in Ids(records), c \in Clinics, comment \in OperatorComments :
        LET o == manage_post(records, today, sub, c, "suspend", comment)
        IN  /\ every \/ o.recs # records
            /\ Len(o.recs) <= cap
            /\ records' = o.recs
            /\ Done("suspend", o.res,
                    IF Early(records, sub, c, "suspend", comment) = "ok" THEN sub ELSE 0, 0, 0)
            /\ UNCHANGED today

Reactivate(cap, every) ==
    \E sub \in Ids(records), c \in Clinics, comment \in ShortComments :
        LET o == manage_post(records, today, sub, c, "reactivate", comment)
        IN  /\ every \/ o.recs # records
            /\ Len(o.recs) <= cap
            /\ records' = o.recs
            /\ Done("reactivate", o.res,
                    IF Early(records, sub, c, "reactivate", comment) = "ok" THEN sub ELSE 0, 0, 0)
            /\ UNCHANGED today

Refund(cap, every) ==
    \E sub \in Ids(records), c \in Clinics, comment \in ShortComments :
        LET o == refund_post(records, today, sub, c, comment)
        IN  /\ every \/ o.recs # records
            /\ Len(o.recs) <= cap
            /\ records' = o.recs
            /\ Done("refund", o.res,
                    IF Early(records, sub, c, "refund", comment) = "ok" THEN sub ELSE 0, 0, 0)
            /\ UNCHANGED today

\* an admin action processes the selected row only if its queryset filter
\* keeps it; a row the filter drops is not touched and nothing is answered
AdminSuspend(cap) ==
    \E sub \in Ids(records) :
        LET recs == suspend_subscriptions(records, today, sub)
        IN  /\ records[sub].status = "ACTIVE"
            /\ Len(recs) <= cap
            /\ records' = recs
            /\ Done("admin_suspend", "ok", sub, 0, 0)
            /\ UNCHANGED today

AdminReactivate(cap) ==
    \E sub \in Ids(records) :
        LET recs == reactivate_subscriptions(records, today, sub)
        IN  /\ records[sub].status = "SUSPENDED"
            /\ Len(recs) <= cap
            /\ records' = recs
            /\ Done("admin_reactivate", "ok", sub, 0, 0)
            /\ UNCHANGED today

AdminRefund ==
    \E sub \in Ids(records) :
        /\ records[sub].status \in {"ACTIVE", "SUSPENDED", "UPCOMING"}
        /\ records' = refund_subscriptions(records, today, sub)
        /\ Done("admin_refund", "ok", sub, 0, 0)
        /\ UNCHANGED today

\* Command.handle: activation sweep, then expiry sweep
Reconcile(cap) ==
    \E o1 \in Orders(upcoming_subs(records, today)) :
        LET a == activate_upcoming_subscriptions(records, today, o1, 0)
        IN  \E o2 \in Orders(expired_subs(a.recs, today)) :
                LET e == expire_active_subscriptions(a.recs, today, o2, 0)
                IN  /\ Len(e.recs) <= cap
                    /\ records' = e.recs
                    /\ Done("reconcile", "ok", 0, a.count, e.count)
                    /\ UNCHANGED today

\* the clock: date.today() moves to the next day
AdvanceDay ==
    /\ today < MaxDay
    /\ today' = today + 1
    /\ Done("advance", "ok", 0, 0, 0)
    /\ UNCHANGED records

\* every request, admin action and command run, accepted or rejected
Next ==
    \/ CreateSubscription(MaxRecords, TRUE)
    \/ Suspend(MaxRecords, TRUE)
    \/ Reactivate(MaxRecords, TRUE)
    \/ Refund(MaxRecords, TRUE)
    \/ AdminSuspend(MaxRecords)
    \/ AdminReactivate(MaxRecords)
    \/ AdminRefund
    \/ Reconcile(MaxRecords)
    \/ AdvanceDay

Spec == Init /\ [][Next]_vars

\* the purchases, suspensions, reactivations and command runs that change
\* the table, followed over longer histories
NextLong ==
    \/ CreateSubscription(MaxLongRecords, FALSE)
    \/ Suspend(MaxLongRecords, FALSE)
    \/ Reactivate(MaxLongRecords, FALSE)
    \/ Reconcile(MaxLongRecords)
    \/ AdvanceDay

SpecLong == Init /\ [][NextLong]_vars

(***************************************************************************)
(* The reconciliation command when the processing of some rows raises.     *)
(* Each row is processed inside `with transaction.atomic()` inside a try   *)
(* whose except clause logs and continues.                                 *)
(***************************************************************************)
\* mutant: the writes made before the exception stay in the table
rollback_keeps_partial(savepoint, partial) == partial

\* leaving the inner atomic block by an exception: the table is put back to
\* the savepoint taken when the block was entered
rollback(savepoint, partial) == savepoint

\* Command._activate_upcoming_subscriptions when the rows in raising raise
\* at sub.save, after the ENDED rows of the iteration were inserted
RECURSIVE activate_with_errors(_, _, _, _, _)
activate_with_errors(recs, day, order, raising, count) ==
    IF order = <<>> THEN [recs |-> recs, count |-> count]
    ELSE LET sub == Head(order)
             ended == end_active_subs(recs, day, recs[sub].clinic, 1, Len(recs))
         IN  IF sub \in raising
             THEN activate_with_errors(rollback(recs, ended), day, Tail(order), raising, count)
             ELSE activate_with_errors([ended EXCEPT ![sub].status = "ACTIVE"],
                                       day, Tail(order), raising, count + 1)

\* Command._expire_active_subscriptions when the rows in raising raise
\* after their ENDED row was inserted
RECURSIVE expire_with_errors(_, _, _, _, _)
expire_with_errors(recs, day, order, raising, count) ==
    IF order = <<>> THEN [recs |-> recs, count |-> count]
    ELSE LET sub == recs[Head(order)]
             added == Append(recs, save(sub.clinic, sub.group, sub.start, <<sub.end>>, "ENDED",
                                        0, sub.amount, <<TextLine>>, day))
         IN  IF GroupHasStatus(recs, sub.group, "ENDED")
             THEN expire_with_errors(recs, day, Tail(order), raising, count)
             ELSE IF Head(order) \in raising
             THEN expire_with_errors(rollback(recs, added), day, Tail(order), raising, count)
             ELSE expire_with_errors(added, day, Tail(order), raising, count + 1)

\* Command.handle when at least one row raises: the exceptions are caught
\* inside the two sweeps, so the command reports its counts as usual
ReconcileWithErrors(cap) ==
    \E o1 \in Orders(upcoming_subs(records, today)) :
      \E r1 \in SUBSET upcoming_subs(records, today) :
        LET a == activate_with_errors(records, today, o1, r1, 0)
        IN  \E o2 \in Orders(expired_subs(a.recs, today)) :
              \E r2 \in SUBSET expired_subs(a.recs, today) :
                LET e == expire_with_errors(a.recs, today, o2, r2, 0)
                IN  /\ r1 \cup r2 # {}
                    /\ Len(e.recs) <= cap
                    /\ records' = e.recs
                    /\ Done("reconcile_errors", "ok", 0, a.count, e.count)
                    /\ UNCHANGED today

\* purchases, suspensions and reactivations that change the table, and
\* command runs in which rows raise
NextSweep ==
    \/ CreateSubscription(MaxRecords, FALSE)
    \/ Suspend(MaxRecords, FALSE)
    \/ Reactivate(MaxRecords, FALSE)
    \/ ReconcileWithErrors(MaxRecords)
    \/ AdvanceDay

SpecSweep == Init /\ [][NextSweep]_vars

\* the comments a stored SUSPENDED row may carry: blank for a row entered
\* through SubscriptionHistoryAdmin (status is a form field, comments is
\* read-only), or the text written by a suspension
StoredComments ==
    { <<>>, <<TextLine>>, <<TextLine, DaysLine(1)>>, <<TextLine, BadDaysLine>> }

\* a table holding one SUSPENDED row, as reactivation may find it
InitSuspended ==
    /\ today = 0
    /\ records \in { <<save(c, 1, s, <<>>, "SUSPENDED", d, 1, cm, 0)>> :
                        c \in Clinics, s \in 0..1, d \in DurationDays, cm \in StoredComments }
    /\ last = [op |-> "init", res |-> "ok", rid |-> 0,
               activated |-> 0, expired |-> 0, again |-> FALSE]
    /\ inflight = [s \in Slots |-> Idle]

\* the reactivations, by request and by admin action, as the days pass
NextReactivate ==
    \/ Reactivate(MaxRecords, TRUE)
    \/ AdminReactivate(MaxRecords)
    \/ AdvanceDay

SpecReactivate == InitSuspended /\ [][NextReactivate]_vars

(***************************************************************************)
(* Requests and command runs that overlap in time.  A transaction reads    *)
(* the table in one step and inserts, updates and commits in a later one;  *)
(* what it decided and prepared from its reads waits in its slot.  The     *)
(* views and the serializer read without locks.  Each sweep of the command *)
(* is a transaction of its own whose first query is                        *)
(* select_for_update().select_related('clinic'): it locks the rows it      *)
(* returns and their clinic rows until the sweep commits.                  *)
(***************************************************************************)
\* mutant: a sweep's first query never waits
never_blocked(infl, s, clinics) == FALSE

\* a select_for_update query waits while another transaction holds a lock
\* on one of the clinic rows it has to lock
select_for_update_blocked(infl, s, clinics) ==
    \E t \in Slots \ {s} : infl[t].locks \cap clinics # {}

\* the insert of a row waits while another transaction holds the lock on
\* the clinic row the new row refers to
insert_blocked(infl, s, c) ==
    \E t \in Slots \ {s} : c \in infl[t].locks

\* the rows a handler appended to the table it read
Appended(before, after) == SubSeq(after, Len(before) + 1, Len(after))

\* activation_date is set when the row is inserted
Inserted(rows, day) == [k \in 1..Len(rows) |-> [rows[k] EXCEPT !.adate = day]]

\* create_subscription: validate has passed, create has not run yet
BeginCreate(s) ==
    \E c \in Clinics, startDate \in today..(today + 1), duration \in DurationDays :
        /\ inflight[s] = Idle
        /\ validate(records, today, c, startDate, duration, 1) = "ok"
        /\ inflight' = [inflight EXCEPT ![s] =
              [Idle EXCEPT !.op = "create", !.day = today, !.sub = c,
                           !.seen = Len(records), !.start = startDate,
                           !.duration = duration]]
        /\ UNCHANGED <<records, today, last>>

\* create_subscription: CreateSubscriptionHistorySerializer.create and commit
CommitCreate(s) ==
    LET t == inflight[s]
        recs == create(records, today, t.sub, t.start, t.duration, 1)
    IN  /\ t.op = "create"
        /\ ~insert_blocked(inflight, s, t.sub)
        /\ Len(recs) <= MaxRecords
        /\ records' = recs
        /\ inflight' = [inflight EXCEPT ![s] = Idle]
        /\ Record("create", "ok", Len(recs), 0, 0)
        /\ UNCHANGED today

\* suspend or reactivate: the row was fetched and the handler's checks have
\* passed, the new row is not inserted yet
BeginManage(s) ==
    \E sub \in Ids(records), action \in {"suspend", "reactivate"} :
        LET o == manage_post(records, today, sub, records[sub].clinic, action, <<TextLine>>)
        IN  /\ inflight[s] = Idle
            /\ o.res = "ok"
            /\ inflight' = [inflight EXCEPT ![s] =
                  [Idle EXCEPT !.op = action, !.day = today, !.sub = sub,
                               !.seen = Len(records), !.rows = Appended(records, o.recs)]]
            /\ UNCHANGED <<records, today, last>>

\* refund: the row was fetched and found refundable
BeginRefund(s) ==
    \E sub \in Ids(records) :
        LET o == refund_post(records, today, sub, records[sub].clinic, <<TextLine>>)
        IN  /\ inflight[s] = Idle
            /\ o.recs # records
            /\ inflight' = [inflight EXCEPT ![s] =
                  [Idle EXCEPT !.op = "refund", !.day = today, !.sub = sub,
                               !.seen = Len(records), !.rows = Appended(records, o.recs)]]
            /\ UNCHANGED <<records, today, last>>

\* suspend, reactivate or refund: the insert and the commit
CommitManual(s) ==
    LET t == inflight[s]
    IN  /\ t.op \in {"suspend", "reactivate", "refund"}
        /\ ~insert_blocked(inflight, s, records[t.sub].clinic)
        /\ Len(records) + Len(t.rows) <= MaxRecords
        /\ records' = records \o Inserted(t.rows, today)
        /\ inflight' = [inflight EXCEPT ![s] = Idle]
        /\ Record(t.op, IF t.op = "refund" THEN "Error500" ELSE "ok", t.sub, 0, 0)
        /\ UNCHANGED today

\* the command starts: today = date.today(), and the activation sweep runs
\* its locking query and decides what to write
LockActivate(s) ==
    LET due == upcoming_subs(records, today)
    IN  \E order \in Orders(due) :
          LET a == activate_upcoming_subscriptions(records, today, order, 0)
          IN  /\ inflight[s] = Idle
              /\ ~select_for_update_blocked(inflight, s, {records[i].clinic : i \in due})
              /\ inflight' = [inflight EXCEPT ![s] =
                    [Idle EXCEPT !.op = "sweep_activate", !.day = today,
                                 !.seen = Len(records), !.rows = Appended(records, a.recs),
                                 !.flips = due, !.count = a.count,
                                 !.locks = {records[i].clinic : i \in due}]]
              /\ UNCHANGED <<records, today, last>>

\* the activation sweep writes and commits; the expiry sweep comes next
CommitActivate(s) ==
    LET t == inflight[s]
    IN  /\ t.op = "sweep_activate"
        /\ Len(records) + Len(t.rows) <= MaxRecords
        /\ records' = [i \in Ids(records) |->
                          IF i \in t.flips THEN [records[i] EXCEPT !.status = "ACTIVE"]
                          ELSE records[i]] \o Inserted(t.rows, today)
        /\ inflight' = [inflight EXCEPT ![s] = [Idle EXCEPT !.op = "sweep_between", !.day = t.day]]
        /\ Record("sweep_activate", "ok", 0, t.count, 0)
        /\ UNCHANGED today

\* the expiry sweep runs its locking query and decides what to write
LockExpire(s) ==
    LET t == inflight[s]
        due == expired_subs(records, t.day)
    IN  \E order \in Orders(due) :
          LET e == expire_active_subscriptions(records, t.day, order, 0)
          IN  /\ t.op = "sweep_between"
              /\ ~select_for_update_blocked(inflight, s, {records[i].clinic : i \in due})
              /\ inflight' = [inflight EXCEPT ![s] =
                    [Idle EXCEPT !.op = "sweep_expire", !.day = t.day,
                                 !.seen = Len(records), !.rows = Appended(records, e.recs),
                                 !.count = e.count,
                                 !.locks = {records[i].clinic : i \in due}]]
              /\ UNCHANGED <<records, today, last>>

\* the expiry sweep writes and commits; the command ends
CommitExpire(s) ==
    LET t == inflight[s]
    IN  /\ t.op = "sweep_expire"
        /\ Len(records) + Len(t.rows) <= MaxRecords
        /\ records' = records \o Inserted(t.rows, today)
        /\ inflight' = [inflight EXCEPT ![s] = Idle]
        /\ Record("sweep_expire", "ok", 0, 0, t.count)
        /\ UNCHANGED today

NextConcurrent ==
    \/ \E s \in Slots : BeginCreate(s)
    \/ \E s \in Slots : CommitCreate(s)
    \/ \E s \in Slots : BeginManage(s)
    \/ \E s \in Slots : BeginRefund(s)
    \/ \E s \in Slots : CommitManual(s)
    \/ \E s \in Slots : LockActivate(s)
    \/ \E s \in Slots : CommitActivate(s)
    \/ \E s \in Slots : LockExpire(s)
    \/ \E s \in Slots : CommitExpire(s)
    \/ AdvanceDay

SpecConcurrent == Init /\ [][NextConcurrent]_vars

(***************************************************************************)
(* Properties.  The definitions below state the properties independently   *)
(* of the operators above.                                                 *)
(***************************************************************************)
RowsWith(c, st) == {i \in ClinicIds(records, c) : records[i].status = st}

\* two [start_date, end_date] windows share a day
SharesDay(s1, e1, s2, e2) == Max(s1, s2) <= (IF e1 <= e2 THEN e1 ELSE e2)

\* the row of clinic c that no other row of c follows in (activation_date, id)
IsLatest(c, i) ==
    /\ i \in ClinicIds(records, c)
    /\ \A j \in ClinicIds(records, c) :
          records[j].adate < records[i].adate \/ (records[j].adate = records[i].adate /\ j <= i)

\* C1: at most one row of a clinic is ACTIVE
C1_OneActive == \A c \in Clinics : Cardinality(RowsWith(c, "ACTIVE")) <= 1

\* C2: at most one row of a clinic is SUSPENDED
C2_OneSuspended == \A c \in Clinics : Cardinality(RowsWith(c, "SUSPENDED")) <= 1

\* C3: the window of an UPCOMING row overlaps neither the window of another
\* UPCOMING row nor that of an ACTIVE or SUSPENDED row of the same clinic
C3_UpcomingDisjoint ==
    \A c \in Clinics : \A i \in RowsWith(c, "UPCOMING") :
        \A j \in ClinicIds(records, c) \ {i} :
            records[j].status \in {"UPCOMING", "ACTIVE", "SUSPENDED"}
                => ~SharesDay(records[i].start, records[i].end, records[j].start, records[j].end)

\* a request to create a subscription whose window shares a day with the
\* window of a row of the clinic that is neither ENDED nor REFUNDED
OverlapsNonTerminal(c, startDate, duration) ==
    \E i \in ClinicIds(records, c) :
        /\ records[i].status \notin {"ENDED", "REFUNDED"}
        /\ SharesDay(startDate, startDate + duration, records[i].start, records[i].end)

\* C4 as stated: in every reachable state every create_subscription request
\* whose window overlaps a non-terminal row is rejected with
\* OverlappingSubscriptionError and creates no row
C4_OverlapRejected ==
    \A c \in Clinics, startDate \in (today - 1)..(today + 1),
       duration \in DurationDays, amount \in Amounts :
        OverlapsNonTerminal(c, startDate, duration)
            => LET o == create_subscription(records, today, c, startDate, duration, amount)
               IN  o.recs = records /\ o.res = "OverlappingSubscriptionError"

\* C4 amended: such a request creates no row; it is rejected with
\* OverlappingSubscriptionError when the clinic is not SUSPENDED and
\* start_date is not in the past, with SuspendedClinicError when the
\* clinic's latest row is SUSPENDED, and otherwise with a ValidationError
C4_OverlapRejectedInOrder ==
    \A c \in Clinics, startDate \in (today - 1)..(today + 1),
       duration \in DurationDays, amount \in Amounts :
        OverlapsNonTerminal(c, startDate, duration)
            => LET o == create_subscription(records, today, c, startDate, duration, amount)
               IN  /\ o.recs = records
                   /\ o.res = IF \E i \in RowsWith(c, "SUSPENDED") : IsLatest(c, i)
                              THEN "SuspendedClinicError"
                              ELSE IF startDate < today THEN "ValidationError"
                              ELSE "OverlappingSubscriptionError"

\* C4 witness: a create request was answered OverlappingSubscriptionError for
\* a clinic holding a non-terminal row
C4_Witness ==
    /\ last.op = "create" /\ last.res = "OverlappingSubscriptionError"
    /\ \E c \in Clinics : RowsWith(c, "UPCOMING") # {} /\ RowsWith(c, "ACTIVE") # {}

\* C5: a reconciliation run that directly follows a reconciliation run
\* changes no row and reports zero activations and zero expirations
C5_ReconcileTwice ==
    [][(last.op = "reconcile" /\ last'.op = "reconcile")
          => (records' = records /\ last'.activated = 0 /\ last'.expired = 0)]_vars

\* C5 witness: a second run in a row, after an expired ACTIVE row got its
\* ENDED row today
C5_Witness ==
    /\ last.op = "reconcile" /\ last.again
    /\ \E i \in Ids(records) :
          /\ records[i].status = "ACTIVE" /\ records[i].end < today
          /\ Cardinality({j \in Ids(records) : records[j].group = records[i].group
                              /\ records[j].status = "ENDED" /\ records[j].adate = today}) = 1

\* C6: an accepted reactivate of a SUSPENDED row writes a row whose end_date
\* is today plus the days the suspended ACTIVE row had left on the day of
\* suspension (the SUSPENDED row's start_date is that day and its end_date
\* the ACTIVE row's end_date)
C6_RoundTrip ==
    [][(last'.op = "reactivate" /\ last'.res = "ok")
          => LET s == records[last'.rid]
                 new == records'[Len(records')]
             IN  /\ new.end = today + Max(0, s.end - s.start)
                 /\ Max(0, new.end - today) = Max(0, s.end - s.start)]_vars

C8_OneEndedPerGroup ==
    \A g \in {records[i].group : i \in Ids(records)} :
        Cardinality({i \in Ids(records) : records[i].group = g /\ records[i].status = "ENDED"}) <= 1

\* C9: every row has end_date >= start_date
C9_EndNotBeforeStart == \A i \in Ids(records) : records[i].end >= records[i].start

NonTerminal(recs, c) ==
    {i \in ClinicIds(recs, c) : recs[i].status \in {"UPCOMING", "ACTIVE", "SUSPENDED"}}

\* C11: every accepted create_subscription request adds one row with the
\* requested start_date, end_date = start_date + plan.duration_days, and
\* status ACTIVE if start_date <= today and UPCOMING if start_date > today
C11_CreationRule ==
    \A c \in Clinics, startDate \in (today - 1)..(today + 1),
       duration \in DurationDays, amount \in Amounts :
        LET o == create_subscription(records, today, c, startDate, duration, amount)
        IN  o.res = "ok"
               => /\ Len(o.recs) = Len(records) + 1
                  /\ o.recs[Len(o.recs)].clinic = c
                  /\ o.recs[Len(o.recs)].start = startDate
                  /\ o.recs[Len(o.recs)].end = startDate + duration
                  /\ o.recs[Len(o.recs)].status =
                        IF startDate <= today THEN "ACTIVE" ELSE "UPCOMING"

\* C11 witness: a purchase of a 2-day plan that starts tomorrow has just been
\* accepted and its row is UPCOMING
C11_Witness ==
    /\ last.op = "create" /\ last.res = "ok"
    /\ records[last.rid].status = "UPCOMING"
    /\ records[last.rid].start = today + 1
    /\ records[last.rid].end = records[last.rid].start + 2

\* C12: right after an accepted create_subscription whose new row is ACTIVE
\* the clinic's derived status is ACTIVE
C12_ActiveAfterCreate ==
    (last.op = "create" /\ last.res = "ok" /\ records[last.rid].status = "ACTIVE")
        => clinic_status(records, records[last.rid].clinic) = "ACTIVE"

\* C12 witness: the accepted purchase starts today and the clinic already had
\* a row, now ENDED, and a REFUNDED or second ENDED row
C12_Witness ==
    /\ last.op = "create" /\ last.res = "ok" /\ last.rid = 3
    /\ records[3].status = "ACTIVE" /\ records[3].start = today
    /\ records[1].status = "ENDED"
    /\ records[2].status \in {"ENDED", "REFUNDED"}

\* C13: an accepted create_subscription whose new row is UPCOMING leaves the
\* clinic's derived status as it was before the request
C13_UpcomingKeepsStatus ==
    [][(last'.op = "create" /\ last'.res = "ok"
          /\ records'[last'.rid].status = "UPCOMING")
          => clinic_status(records', records'[last'.rid].clinic)
                = clinic_status(records, records'[last'.rid].clinic)]_vars

\* C14: a reconciliation run turns every row that was UPCOMING with
\* start_date <= today into ACTIVE in place and leaves every UPCOMING row
\* with start_date > today UPCOMING
C14_DueActivated ==
    [][last'.op = "reconcile"
          => \A i \in Ids(records) :
                records[i].status = "UPCOMING"
                   => /\ records'[i] = [records[i] EXCEPT !.status = records'[i].status]
                      /\ records'[i].status =
                            IF records[i].start <= today THEN "ACTIVE" ELSE "UPCOMING"]_vars

\* C14 witness: the last run activated a row bought before its start_date
\* and left a row that starts after today UPCOMING
C14_Witness ==
    /\ last.op = "reconcile" /\ last.activated = 1
    /\ \E i, j \in Ids(records) :
          /\ records[i].status = "ACTIVE" /\ records[i].start <= today
          /\ records[i].adate < records[i].start
          /\ records[j].status = "UPCOMING" /\ records[j].start > today

\* C15: after a reconciliation run that activates a due UPCOMING row of a
\* clinic, the clinic's derived status is ACTIVE
C15_ActiveAfterActivation ==
    [][last'.op = "reconcile"
          => \A i \in Ids(records) :
                (records[i].status = "UPCOMING" /\ records[i].start <= today)
                   => clinic_status(records', records[i].clinic) = "ACTIVE"]_vars

\* C16: after a reconciliation run, a row that was ACTIVE with
\* end_date < today has status ENDED itself
C16_ExpiredRowEnded ==
    [][last'.op = "reconcile"
          => \A i \in Ids(records) :
                (records[i].status = "ACTIVE" /\ records[i].end < today)
                   => records'[i].status = "ENDED"]_vars

\* C17: a refund request on the ACTIVE row of a clinic whose other rows are
\* all ENDED or REFUNDED succeeds, appends exactly one REFUNDED row with the
\* group, start_date, end_date and amount_paid of the refunded row, and
\* leaves the clinic's derived status ENDED
C17_RefundSoleActive ==
    [][(/\ last'.op = "refund" /\ last'.rid # 0
        /\ records[last'.rid].status = "ACTIVE"
        /\ NonTerminal(records, records[last'.rid].clinic) = {last'.rid})
          => (/\ last'.res = "ok"
              /\ Len(records') = Len(records) + 1
              /\ SubSeq(records', 1, Len(records)) = records
              /\ records'[Len(records')].status = "REFUNDED"
              /\ records'[Len(records')].group = records[last'.rid].group
              /\ records'[Len(records')].start = records[last'.rid].start
              /\ records'[Len(records')].end = records[last'.rid].end
              /\ records'[Len(records')].amount = records[last'.rid].amount
              /\ clinic_status(records', records[last'.rid].clinic) = "ENDED")]_vars

\* C18: when a refund request adds its REFUNDED row while the clinic has
\* another row that is ACTIVE or UPCOMING, the clinic's derived status after
\* the refund is its derived status before the refund
C18_RefundKeepsStatus ==
    [][(/\ last'.op = "refund" /\ last'.rid # 0
        /\ records' # records
        /\ \E j \in ClinicIds(records, records[last'.rid].clinic) \ {last'.rid} :
              records[j].status \in {"ACTIVE", "UPCOMING"})
          => clinic_status(records', records[last'.rid].clinic)
                = clinic_status(records, records[last'.rid].clinic)]_vars

\* C19: right after an accepted suspend the clinic has exactly one row that
\* is UPCOMING, ACTIVE or SUSPENDED
C19_OneNonTerminalAfterSuspend ==
    (last.op = "suspend" /\ last.res = "ok")
        => Cardinality(NonTerminal(records, records[last.rid].clinic)) = 1

\* C20: days_left of a row is end_date - today, and 0 when that is
\* negative, if the row is ACTIVE; it is 0 for a row of any other status;
\* it is never negative
C20_DaysLeft ==
    \A i \in Ids(records) : \A day \in 0..MaxDay :
        /\ days_left(records[i], day) >= 0
        /\ records[i].status = "ACTIVE" /\ records[i].end >= day
              => days_left(records[i], day) = records[i].end - day
        /\ records[i].status = "ACTIVE" /\ records[i].end < day
              => days_left(records[i], day) = 0
        /\ records[i].status # "ACTIVE" => days_left(records[i], day) = 0

\* C20 witness: an ACTIVE row whose end_date has passed has just been
\* suspended with zero days remaining, and its SUSPENDED row has 0 days left
C20_Witness ==
    /\ last.op = "suspend" /\ last.res = "ok"
    /\ records[last.rid].status = "ACTIVE" /\ records[last.rid].end < today
    /\ days_left(records[last.rid], today) = 0
    /\ records[Len(records)].status = "SUSPENDED"
    /\ records[Len(records)].comments[Len(records[Len(records)].comments)] = DaysLine(0)


\* C21: a suspend request that reaches _handle_suspend for an ACTIVE row of
\* a clinic without UPCOMING rows is accepted and appends exactly one row:
\* same group, SUSPENDED, start_date = today, end_date of the ACTIVE row;
\* the clinic's derived status is SUSPENDED afterwards
C21_SuspendEffect ==
    [][(/\ last'.op = "suspend" /\ last'.rid # 0
        /\ records[last'.rid].status = "ACTIVE"
        /\ RowsWith(records[last'.rid].clinic, "UPCOMING") = {})
          => (/\ last'.res = "ok"
              /\ Len(records') = Len(records) + 1
              /\ SubSeq(records', 1, Len(records)) = records
              /\ records'[Len(records')].clinic = records[last'.rid].clinic
              /\ records'[Len(records')].group = records[last'.rid].group
              /\ records'[Len(records')].status = "SUSPENDED"
              /\ records'[Len(records')].start = today
              /\ records'[Len(records')].end = records[last'.rid].end
              /\ clinic_status(records', records[last'.rid].clinic) = "SUSPENDED")]_vars

\* C21 witness: an ACTIVE row was suspended on a day after its start_date
C21_Witness ==
    /\ last.op = "suspend" /\ last.res = "ok"
    /\ records[last.rid].status = "ACTIVE"
    /\ records[Len(records)].status = "SUSPENDED"
    /\ records[Len(records)].start = today
    /\ records[Len(records)].start > records[last.rid].start
    /\ records[Len(records)].end >= today

\* C22: a reactivate request that reaches _handle_reactivate for a SUSPENDED
\* row is accepted and appends exactly one row: same group, ACTIVE,
\* start_date = today; the clinic's derived status is ACTIVE afterwards
C22_ReactivateEffect ==
    [][(/\ last'.op = "reactivate" /\ last'.rid # 0
        /\ records[last'.rid].status = "SUSPENDED")
          => (/\ last'.res = "ok"
              /\ Len(records') = Len(records) + 1
              /\ SubSeq(records', 1, Len(records)) = records
              /\ records'[Len(records')].clinic = records[last'.rid].clinic
              /\ records'[Len(records')].group = records[last'.rid].group
              /\ records'[Len(records')].status = "ACTIVE"
              /\ records'[Len(records')].start = today
              /\ clinic_status(records', records[last'.rid].clinic) = "ACTIVE")]_vars

\* C22 witness: a SUSPENDED row was reactivated on a day after the suspension
C22_Witness ==
    /\ last.op = "reactivate" /\ last.res = "ok"
    /\ records[last.rid].status = "SUSPENDED"
    /\ records[last.rid].start < today
    /\ records[Len(records)].status = "ACTIVE"
    /\ records[Len(records)].group = records[last.rid].group

\* C24: a suspend request that reaches its handler for a row that is not
\* ACTIVE and a reactivate request that reaches its handler for a row that
\* is not SUSPENDED fail with InvalidSubscriptionStatusError, a refund
\* request for an ENDED or REFUNDED row is rejected, and none changes a row
C24_IllegalRejected ==
    [][(/\ last'.rid # 0
        /\ \/ last'.op = "suspend" /\ records[last'.rid].status # "ACTIVE"
           \/ last'.op = "reactivate" /\ records[last'.rid].status # "SUSPENDED"
           \/ last'.op = "refund" /\ records[last'.rid].status \in {"ENDED", "REFUNDED"})
          => (/\ records' = records
              /\ last'.res # "ok"
              /\ last'.op \in {"suspend", "reactivate"}
                    => last'.res = "InvalidSubscriptionStatusError")]_vars

\* C24 witness: a reactivate request on an ENDED row has been rejected
C24_Witness ==
    /\ last.op = "reactivate" /\ last.rid # 0
    /\ records[last.rid].status = "ENDED"
    /\ last.res = "InvalidSubscriptionStatusError"

\* C25: in every reachable state every suspend of an ACTIVE row of a clinic
\* that has an UPCOMING row, by request or by admin action, is rejected and
\* leaves the rows as they are
C25_UpcomingBlocksSuspend ==
    \A sub \in Ids(records) :
        (records[sub].status = "ACTIVE" /\ RowsWith(records[sub].clinic, "UPCOMING") # {})
            => /\ \A c \in Clinics, comment \in OperatorComments :
                     LET o == manage_post(records, today, sub, c, "suspend", comment)
                     IN  o.recs = records /\ o.res # "ok"
               /\ suspend_subscriptions(records, today, sub) = records

\* C25 witness: a suspend request on an ACTIVE row reached its handler and
\* was answered 400 because the clinic has an UPCOMING row
C25_Witness ==
    /\ last.op = "suspend" /\ last.rid # 0 /\ last.res = "BadRequest400"
    /\ records[last.rid].status = "ACTIVE"
    /\ RowsWith(records[last.rid].clinic, "UPCOMING") # {}

\* C26: in every reachable state every create_subscription request for a
\* clinic whose latest row is SUSPENDED is rejected with
\* SuspendedClinicError and leaves the rows as they are
C26_SuspendedBlocksCreate ==
    \A c \in Clinics :
        (\E i \in RowsWith(c, "SUSPENDED") : IsLatest(c, i))
            => \A startDate \in (today - 1)..(today + 1),
                  duration \in DurationDays, amount \in Amounts :
                   LET o == create_subscription(records, today, c, startDate, duration, amount)
                   IN  o.recs = records /\ o.res = "SuspendedClinicError"

\* C26 witness: a purchase for a suspended clinic has been rejected on a day
\* after the suspended plan's end_date
C26_Witness ==
    /\ last.op = "create" /\ last.res = "SuspendedClinicError"
    /\ \E c \in Clinics : \E i \in RowsWith(c, "SUSPENDED") :
          IsLatest(c, i) /\ records[i].end < today

\* C27: a create, suspend, reactivate or refund request that reports a
\* failure has left the rows exactly as they were
C27_FailureChangesNothing ==
    [][(last'.op \in {"create", "suspend", "reactivate", "refund"} /\ last'.res # "ok")
          => records' = records]_vars

\* C28: an accepted create_subscription whose new row is ACTIVE leaves every
\* row of the clinic that was ACTIVE before ENDED, the new row the clinic's
\* only ACTIVE row, and the new row's group different from every older group
C28_CreateEndsActive ==
    [][(last'.op = "create" /\ last'.res = "ok" /\ records'[last'.rid].status = "ACTIVE")
          => LET c == records'[last'.rid].clinic
             IN  /\ last'.rid = Len(records) + 1
                 /\ \A i \in Ids(records) :
                       (records[i].clinic = c /\ records[i].status = "ACTIVE")
                          => records'[i].status = "ENDED"
                 /\ {i \in Ids(records') : records'[i].clinic = c
                                           /\ records'[i].status = "ACTIVE"} = {last'.rid}
                 /\ \A i \in Ids(records) : records[i].group # records'[last'.rid].group]_vars

\* C28 witness: the clinic's expired ACTIVE row was ended by the purchase
\* that inserted the second row
C28_Witness ==
    /\ last.op = "create" /\ last.res = "ok" /\ last.rid = 2
    /\ Len(records) = 2
    /\ records[1].status = "ENDED" /\ records[1].end < today
    /\ records[2].status = "ACTIVE"

\* C30: create_subscription, suspend, reactivate, refund and the
\* reconciliation run delete no row and change no field of a stored row,
\* except that the reconciliation run turns a due UPCOMING row ACTIVE
C30_AppendOnly ==
    [][last'.op \in {"create", "suspend", "reactivate", "refund", "reconcile"}
          => /\ Len(records') >= Len(records)
             /\ \A i \in Ids(records) :
                   \/ records'[i] = records[i]
                   \/ /\ last'.op = "reconcile"
                      /\ records[i].status = "UPCOMING" /\ records[i].start <= today
                      /\ records'[i] = [records[i] EXCEPT !.status = "ACTIVE"]]_vars


\* the first line of the comments that starts with '[Days Remaining:' is
\* missing or does not carry an integer
NoFrozenCount(lines) ==
    ~\E k \in 1..Len(lines) :
        lines[k].k = "days" /\ \A j \in 1..(k - 1) : lines[j].k = "text"

\* C23: a reactivation, by request or by admin action, of a SUSPENDED row
\* whose comments yield no frozen day count is accepted and writes an ACTIVE
\* row whose end_date is the SUSPENDED row's end_date
C23_ParseFallback ==
    [][(/\ last'.op \in {"reactivate", "admin_reactivate"} /\ last'.rid # 0
        /\ records[last'.rid].status = "SUSPENDED"
        /\ NoFrozenCount(records[last'.rid].comments))
          => (/\ last'.res = "ok"
              /\ Len(records') = Len(records) + 1
              /\ records'[Len(records')].status = "ACTIVE"
              /\ records'[Len(records')].end = records[last'.rid].end)]_vars

\* what the expiry sweep may do to table R: it appends ENDED rows only and
\* reports their number; a group with an expired ACTIVE row and no ENDED
\* row gets exactly one, carrying the clinic, start_date and end_date of an
\* expired ACTIVE row of the group; any other group gets none; every clinic
\* that got a row derives to ENDED
ExpiryAsClaimed(R, day, e) ==
    LET new == (Len(R) + 1)..Len(e.recs)
    IN  /\ Len(e.recs) >= Len(R)
        /\ SubSeq(e.recs, 1, Len(R)) = R
        /\ e.count = Len(e.recs) - Len(R)
        /\ \A k \in new : e.recs[k].status = "ENDED"
        /\ \A g \in {e.recs[i].group : i \in Ids(e.recs)} :
              LET X == {i \in Ids(R) : R[i].group = g /\ R[i].status = "ACTIVE"
                                       /\ R[i].end < day}
                  N == {k \in new : e.recs[k].group = g}
              IN  IF X # {} /\ ~\E i \in Ids(R) : R[i].group = g /\ R[i].status = "ENDED"
                  THEN /\ Cardinality(N) = 1
                       /\ \A k \in N : \E i \in X :
                             /\ e.recs[k].clinic = R[i].clinic
                             /\ e.recs[k].start = R[i].start
                             /\ e.recs[k].end = R[i].end
                  ELSE N = {}
        /\ \A k \in new : \A c \in Clinics :
              e.recs[k].clinic = c
                 => \E i \in ClinicIds(e.recs, c) :
                       /\ e.recs[i].status = "ENDED"
                       /\ \A j \in ClinicIds(e.recs, c) : j = i \/ Later(e.recs, i, j)
                       /\ clinic_status(e.recs, c) = "ENDED"

\* C29: in every reachable state, whatever the activation sweep of a run
\* started now does first and in whatever order the rows are taken, the
\* expiry sweep adds exactly one ENDED row for each group with an expired
\* ACTIVE row and no ENDED row, none for any other group, and leaves the
\* clinics of the expired rows ENDED
C29_ExpireActive ==
    \A o1 \in Orders(upcoming_subs(records, today)) :
        LET a == activate_upcoming_subscriptions(records, today, o1, 0)
        IN  \A o2 \in Orders(expired_subs(a.recs, today)) :
                ExpiryAsClaimed(a.recs, today,
                                expire_active_subscriptions(a.recs, today, o2, 0))

\* C29 witness: the last run expired a group that holds two expired ACTIVE
\* rows with different windows, and the group has one ENDED row, written today
C29_Witness ==
    /\ last.op = "reconcile" /\ last.expired = 1 /\ last.activated = 0
    /\ \E i, j \in Ids(records) :
          /\ records[i].group = records[j].group
          /\ records[i].status = "ACTIVE" /\ records[j].status = "ACTIVE"
          /\ records[i].end < today /\ records[j].end < today
          /\ records[i].start # records[j].start
          /\ Cardinality({k \in Ids(records) : records[k].group = records[i].group
                              /\ records[k].status = "ENDED"}) = 1
          /\ \E k \in Ids(records) : records[k].group = records[i].group
                              /\ records[k].status = "ENDED" /\ records[k].adate = today


\* C35: an expiry sweep (a run that activates nothing) adds no ENDED row to
\* a group whose most recently created ACTIVE row has end_date >= today
C35_NoEarlyExpiry ==
    [][(last'.op = "reconcile" /\ last'.activated = 0)
          => \A k \in (Len(records) + 1)..Len(records') :
                records'[k].status = "ENDED"
                   => \A i \in Ids(records) :
                         (/\ records[i].group = records'[k].group
                          /\ records[i].status = "ACTIVE"
                          /\ \A j \in Ids(records) :
                                (records[j].group = records[i].group
                                   /\ records[j].status = "ACTIVE") => j <= i)
                            => records[i].end < today]_vars

\* C36: right after a reconciliation run, a clinic whose ACTIVE rows all
\* have end_date < today does not derive to ACTIVE
C36_CoverageEnds ==
    last.op = "reconcile"
        => \A c \in Clinics :
              (\A i \in RowsWith(c, "ACTIVE") : records[i].end < today)
                 => clinic_status(records, c) # "ACTIVE"

\* C37: once a group holds a REFUNDED row, no step adds a row of that group
\* or turns a row of that group ACTIVE
C37_RefundFinal ==
    [][\A g \in {records[i].group : i \in Ids(records)} :
          (\E i \in Ids(records) : records[i].group = g /\ records[i].status = "REFUNDED")
             => /\ \A k \in (Len(records) + 1)..Len(records') : records'[k].group # g
                /\ \A i \in Ids(records) :
                      (i <= Len(records') /\ records[i].group = g
                         /\ records[i].status # "ACTIVE")
                         => records'[i].status # "ACTIVE"]_vars

\* C38: a group holds at most one REFUNDED row
C38_OneRefundPerGroup ==
    \A g \in {records[i].group : i \in Ids(records)} :
        Cardinality({i \in Ids(records) : records[i].group = g
                                          /\ records[i].status = "REFUNDED"}) <= 1

\* C39: a reconciliation run adds no row for a clinic that derives to
\* SUSPENDED and has no UPCOMING row, and leaves it deriving to SUSPENDED
C39_SuspendedFrozen ==
    [][last'.op = "reconcile"
          => \A c \in Clinics :
                (clinic_status(records, c) = "SUSPENDED" /\ RowsWith(c, "UPCOMING") = {})
                   => /\ ClinicIds(records', c) = ClinicIds(records, c)
                      /\ clinic_status(records', c) = "SUSPENDED"]_vars

\* C40: a clinic derives to ACTIVE exactly if it has an ACTIVE row
C40_StatusAgreesWithActive ==
    \A c \in Clinics :
        clinic_status(records, c) = "ACTIVE" <=> RowsWith(c, "ACTIVE") # {}


\* the order without the rows in F
Without(order, F) ==
    LET Keep(x) == x \notin F IN SelectSeq(order, Keep)

C32_OneSuccessor ==
    [][\A s \in Slots :
         (/\ inflight[s].op \in {"suspend", "reactivate", "refund"}
          /\ inflight'[s] = Idle
          /\ records[inflight[s].sub].status = "ACTIVE")
         => ~\E k \in (inflight[s].seen + 1)..Len(records) :
                /\ records[k].status = "ENDED"
                /\ records[k].group = records[inflight[s].sub].group]_vars

\* C33: whenever a sweep commits while runs of the command overlap, every
\* row it turns ACTIVE is still UPCOMING in the table, and every ENDED row
\* it adds is the first ENDED row of its group
C33_SweepsNoDuplicates ==
    [][\A s \in Slots :
         (/\ inflight[s].op \in {"sweep_activate", "sweep_expire"}
          /\ inflight'[s].op # inflight[s].op)
         => LET rows == inflight[s].rows
            IN  /\ \A i \in inflight[s].flips : records[i].status = "UPCOMING"
                /\ \A k \in 1..Len(rows) :
                      /\ rows[k].status = "ENDED"
                      /\ ~\E j \in Ids(records) :
                            records[j].status = "ENDED" /\ records[j].group = rows[k].group
                      /\ \A m \in 1..Len(rows) :
                            m # k => rows[m].group # rows[k].group]_vars

\* C33 witness: one run holds the locks of its expiry sweep with an ENDED row
\* to add, while another run started on the same day has finished its
\* activation sweep and has the same expired row due
C33_Witness ==
    \E s \in Slots, t \in Slots :
        /\ s # t
        /\ inflight[s].op = "sweep_expire"
        /\ inflight[s].rows # <<>>
        /\ inflight[t].op = "sweep_between"
        /\ inflight[t].day = inflight[s].day
        /\ expired_subs(records, inflight[t].day) # {}

\* C34: whenever a create_subscription request commits its row, no other
\* create_subscription committed, between this request's validation and its
\* commit, a row that is still ACTIVE or UPCOMING and shares a day with it
C34_OneCreateCommits ==
    [][\A s \in Slots :
         (inflight[s].op = "create" /\ inflight'[s] = Idle)
         => LET new == records'[Len(records')]
            IN  ~\E k \in (inflight[s].seen + 1)..Len(records) :
                   /\ records'[k].clinic = new.clinic
                   /\ records'[k].status \in {"ACTIVE", "UPCOMING"}
                   /\ \A j \in 1..(k - 1) : records[j].group # records[k].group
                   /\ SharesDay(records'[k].start, records'[k].end, new.start, new.end)]_vars

====
